---- MODULE Spec2Model ----
(***************************************************************************)
(* ActionKV (src/src/lib.rs): a log-structured key/value store.  One       *)
(* append-only file of checksummed records, an in-memory index from key    *)
(* to the offset of a record.  The file is modelled byte by byte, the      *)
(* records with their real 12-byte little-endian header and a real         *)
(* CRC-32 (IEEE), the file cursor of the one descriptor the handle owns    *)
(* with the read-ahead of the BufReader that every read goes through.      *)
(***************************************************************************)
EXTENDS Integers, Sequences, FiniteSets, TLC

(***************************************************************************)
(* Bounds of the model.                                                    *)
(***************************************************************************)
\* Longest log, in bytes, that an append may still extend.
MaxLog == 42
\* Keys are the byte strings over KeyBytes of length <= MaxKeyLen.
MaxKeyLen == 1
\* Length of the all-zero value (the one long value of the model).
PadLen == 12
\* Capacity of the BufReader that get_at wraps around the file.  The
\* library's capacity is 8192 bytes; the model scales it down so that a
\* log longer than one buffer is within MaxLog.  It stays above the longest
\* payload (MaxKeyLen + PadLen), so every payload read goes through the
\* buffer, as it does for payloads shorter than 8192 bytes.
BufCap == 24
\* Failed writes and outside modifications of the file in one behaviour.
MaxFaults == 1
\* The codec is checked on keys and values over CodecBytes of length
\* <= CodecLen, and on one value of LongLen bytes, whose length does not fit
\* in one byte of the header.
CodecLen == 2
LongLen == 300

(***************************************************************************)
(* Bytes and 32-bit words.  A u32 is the pair << high half, low half >> of *)
(* its 16-bit halves; on the file it is four bytes, little-endian.         *)
(***************************************************************************)
Word(hi, lo) == << hi, lo >>

Hi(w) == w[1]

Lo(w) == w[2]

\* usize -> u32 of a length below 2^16 (`key_len as u32`).
WordOfNat(n) == Word(0, n)

\* A writer that puts the high byte first.
BE32(w) == << Hi(w) \div 256, Hi(w) % 256, Lo(w) \div 256, Lo(w) % 256 >>

\* write_u32::<LittleEndian>
LE32(w) == << Lo(w) % 256, Lo(w) \div 256, Hi(w) % 256, Hi(w) \div 256 >>

\* read_u32::<LittleEndian> of the four bytes b
FromLE32(b) == Word(b[3] + 256 * b[4], b[1] + 256 * b[2])

\* key_len + value_len on u32: the sum modulo 2^32 and whether it overflowed.
AddU32(a, b) ==
    LET lo == Lo(a) + Lo(b)
        hi == Hi(a) + Hi(b) + (lo \div 65536)
    IN  [sum |-> Word(hi % 65536, lo % 65536), overflow |-> hi >= 65536]

\* min(w, n) for a u32 w and a natural n below 2^16.
MinWordNat(w, n) == IF Hi(w) > 0 \/ Lo(w) > n THEN n ELSE Lo(w)

\* w as a natural, for a u32 w below 2^16.
IsSmall(w) == Hi(w) = 0

XorBit(a, b) == (a + b) % 2

\* Exclusive or of two 4-bit digits, then of two bytes, as tables.
XorNib == [a \in 0..15 |-> [b \in 0..15 |->
              XorBit(a % 2, b % 2)
            + 2 * XorBit((a \div 2) % 2, (b \div 2) % 2)
            + 4 * XorBit((a \div 4) % 2, (b \div 4) % 2)
            + 8 * XorBit(a \div 8, b \div 8)]]

XorByte == [a \in 0..255 |-> [b \in 0..255 |->
              XorNib[a % 16][b % 16] + 16 * XorNib[a \div 16][b \div 16]]]

\* Exclusive or of two 16-bit halves.
Xor(a, b) == XorByte[a % 256][b % 256] + 256 * XorByte[a \div 256][b \div 256]

XorWord(a, b) == Word(Xor(Hi(a), Hi(b)), Xor(Lo(a), Lo(b)))

\* The reflected IEEE 802.3 polynomial 0xEDB88320 of crc32::checksum_ieee,
\* as its two halves.
PolyHi == 60856
PolyLo == 33568

ShiftRight1(w) == Word(Hi(w) \div 2, (Lo(w) \div 2) + 32768 * (Hi(w) % 2))

ShiftRight8(w) == Word(Hi(w) \div 256, (Lo(w) \div 256) + 256 * (Hi(w) % 256))

RECURSIVE CrcShift(_, _)
CrcShift(c, n) ==
    IF n = 0 THEN c
    ELSE CrcShift(IF Lo(c) % 2 = 1
                  THEN XorWord(ShiftRight1(c), Word(PolyHi, PolyLo))
                  ELSE ShiftRight1(c), n - 1)

CrcTable == [b \in 0..255 |-> CrcShift(Word(0, b), 8)]

\* The register c after the bytes lo..hi of data.  The range is taken in
\* halves, and c is evaluated (Lo(c) < 0 is never true) before a half is
\* entered, which keeps the evaluation shallow for long data.
RECURSIVE CrcRange(_, _, _, _)
CrcRange(c, data, lo, hi) ==
    IF lo > hi \/ Lo(c) < 0 THEN c
    ELSE IF lo = hi
         THEN XorWord(CrcTable[XorByte[Lo(c) % 256][data[lo]]], ShiftRight8(c))
         ELSE LET mid == (lo + hi) \div 2
              IN  CrcRange(CrcRange(c, data, lo, mid), data, mid + 1, hi)

CrcUpdate(c, data, i) == CrcRange(c, data, i, Len(data))

\* crc32::checksum_ieee(&data), computed byte by byte.
Crc32Bytes(data) == XorWord(CrcUpdate(Word(65535, 65535), data, 1), Word(65535, 65535))

(***************************************************************************)
(* Keys and values of the model.                                           *)
(***************************************************************************)
BoundedSeq(S, n) == UNION { [1..m -> S] : m \in 0..n }

Min(a, b) == IF a < b THEN a ELSE b

CeilDiv(a, b) == (a + b - 1) \div b

KeyBytes == {107}

ValBytes == {118}

Zeros == [i \in 1..PadLen |-> 0]

Keys == BoundedSeq(KeyBytes, MaxKeyLen)

\* The empty value (what delete writes), a short one and a long one.
Vals == BoundedSeq(ValBytes, 1) \cup {Zeros}

\* The payloads (key ++ value) that the calls of the model write, and their
\* checksums computed once.
Payloads == { k \o v : k \in Keys, v \in Vals }

CrcOfPayload == [d \in Payloads |-> Crc32Bytes(d)]

\* crc32::checksum_ieee(&data)
Crc32(data) == IF data \in Payloads THEN CrcOfPayload[data] ELSE Crc32Bytes(data)

(***************************************************************************)
(* The record codec.                                                       *)
(***************************************************************************)
\* The three u32 fields in front of every record.
HeaderLen == 12

\* The bytes insert_but_ignore_index hands to the writer: checksum, key_len,
\* value_len, then data = key ++ value.
Encode(key, value) ==
    LET data == key \o value
    IN  LE32(Crc32(data)) \o LE32(WordOfNat(Len(key))) \o LE32(WordOfNat(Len(value)))
        \o data

\* The bytes of file f from offset pos (0-based), n of them.
Bytes(f, pos, n) == SubSeq(f, pos + 1, pos + n)

\* A reader that never compares the checksums.
ChecksumIgnored(checksum, saved_checksum) == TRUE

\* The comparison that decides whether process_record panics with "data
\* corruption encountered".
ChecksumMatches(checksum, saved_checksum) == checksum = saved_checksum

\* process_record on a reader positioned at offset pos of file f, in a debug
\* build (dbg) or a release build.  kind is "ok", "eof" (an UnexpectedEof
\* error of one of the three read_u32) or the panic that ended the process;
\* next is the offset behind the bytes consumed; short says that the file
\* ended before data_len payload bytes.
ProcessRecord(f, pos, dbg) ==
    LET avail == Len(f) - pos
        none  == [kind |-> "eof", key |-> << >>, value |-> << >>,
                  next |-> Len(f), short |-> TRUE]
    IN  IF avail < HeaderLen THEN none
        ELSE
        LET saved_checksum == FromLE32(Bytes(f, pos, 4))
            key_len   == FromLE32(Bytes(f, pos + 4, 4))
            value_len == FromLE32(Bytes(f, pos + 8, 4))
            add       == AddU32(key_len, value_len)
            data_len  == add.sum
            n         == MinWordNat(data_len, avail - HeaderLen)
            data      == Bytes(f, pos + HeaderLen, n)
            short     == data_len # WordOfNat(n)
            checksum  == Crc32(data)
            res(k)    == [kind |-> k, key |-> << >>, value |-> << >>,
                          next |-> pos + HeaderLen + n, short |-> short]
        IN  IF dbg /\ add.overflow THEN res("panic_overflow")
            ELSE IF dbg /\ short THEN res("panic_assert")
            ELSE IF ~ChecksumMatches(checksum, saved_checksum) THEN res("panic_corrupt")
            ELSE IF ~IsSmall(key_len) \/ Lo(key_len) > n THEN res("panic_split")
            ELSE [kind |-> "ok",
                  key |-> SubSeq(data, 1, Lo(key_len)),
                  value |-> SubSeq(data, Lo(key_len) + 1, n),
                  next |-> pos + HeaderLen + n, short |-> short]

IsPanic(kind) == kind \in {"panic_overflow", "panic_assert", "panic_corrupt", "panic_split"}

\* The index as a function from the keys it holds to offsets.
EmptyIndex == [k \in {} |-> 0]

\* A map that forgets every other key when one is bound.
PutOnly(m, key, x) == [k \in {key} |-> x]

\* The map m with key bound to x, whatever it was bound to before.
Put(m, key, x) == [k \in DOMAIN m \cup {key} |-> IF k = key THEN x ELSE m[k]]

\* A map that keeps the offset a key already has.
IndexInsertKeepsOld(idx, key, pos) == IF key \in DOMAIN idx THEN idx ELSE Put(idx, key, pos)

\* self.index.insert(key, pos)
IndexInsert(idx, key, pos) == Put(idx, key, pos)

\* A load that binds each key to the offset behind its record.
RECURSIVE LoadLoopEndOffset(_, _, _, _)
LoadLoopEndOffset(f, pos, idx, dbg) ==
    LET r == ProcessRecord(f, pos, dbg)
    IN  IF r.kind = "ok" THEN LoadLoopEndOffset(f, r.next, IndexInsert(idx, r.key, r.next), dbg)
        ELSE IF r.kind = "eof" THEN [kind |-> "ok", index |-> idx]
        ELSE [kind |-> r.kind, index |-> idx]

\* The loop of load from offset pos with index idx: the index it leaves and
\* how it ended ("ok" at an UnexpectedEof, else the panic).
RECURSIVE LoadLoop(_, _, _, _)
LoadLoop(f, pos, idx, dbg) ==
    LET r == ProcessRecord(f, pos, dbg)
    IN  IF r.kind = "ok" THEN LoadLoop(f, r.next, IndexInsert(idx, r.key, pos), dbg)
        ELSE IF r.kind = "eof" THEN [kind |-> "ok", index |-> idx]
        ELSE [kind |-> r.kind, index |-> idx]

\* Where the file cursor is once the BufReader that ran process_record at
\* offset pos with result r is dropped: the reader fills its buffer BufCap
\* bytes at a time and never seeks back; a read that met the end of the
\* file leaves the cursor there.
CursorAfterRead(f, pos, r) ==
    IF r.short THEN Len(f)
    ELSE Min(pos + CeilDiv(r.next - pos, BufCap) * BufCap, Len(f))

(***************************************************************************)
(* The state: the file, the handle, and what the caller saw last.          *)
(***************************************************************************)
VARIABLES
    log,      \* the bytes of the file at the store's path
    cursor,   \* file offset of the handle's descriptor (ActionKV.f)
    index,    \* ActionKV.index
    alive,    \* FALSE once a panic has ended the process that held the handle
    debug,    \* the build: debug assertions and overflow checks on or off
    last,     \* the last call on the handle, its arguments and what it returned
    faults,   \* failed writes and outside modifications so far
    written,  \* key -> offset and value of its last insert since open or load
    pure,     \* the handle was opened on an empty file and has only appended
    prev,     \* index and written of the handle closed last, if it was pure
    nops,     \* calls on the handle since open, counted up to 2
    loaded,   \* load has returned Ok on the handle
    again     \* the last call repeats the call before it: same operation and argument

vars == << log, cursor, index, alive, debug, last, faults, written, pure, prev, nops,
          loaded, again >>

Call(op, key, res, val, fault) ==
    [op |-> op, key |-> key, res |-> res, val |-> val, fault |-> fault]

NoPrev == [ok |-> FALSE, index |-> EmptyIndex, written |-> EmptyIndex]

Count(n) == Min(n + 1, 2)

\* ActionKV::open on a path with no file: the file is created empty.
Init ==
    /\ log = << >>
    /\ cursor = 0
    /\ index = EmptyIndex
    /\ alive = TRUE
    /\ debug \in BOOLEAN
    /\ last = Call("open", << >>, "ok", << >>, "none")
    /\ faults = 0
    /\ written = EmptyIndex
    /\ pure = TRUE
    /\ prev = NoPrev
    /\ nops = 0
    /\ loaded = FALSE
    /\ again = FALSE

\* The handle is dropped (or its process has panicked) and ActionKV::open is
\* called on the same path: read + write + create + append, no truncation;
\* a new descriptor starts at offset 0 and the index is a new HashMap.
Open ==
    /\ log' = log
    /\ cursor' = 0
    /\ index' = EmptyIndex
    /\ alive' = TRUE
    /\ last' = Call("open", << >>, "ok", << >>, "none")
    /\ written' = EmptyIndex
    /\ pure' = (log = << >>)
    /\ prev' = IF alive /\ pure
               THEN [ok |-> TRUE, index |-> index, written |-> written]
               ELSE NoPrev
    /\ nops' = 0
    /\ loaded' = FALSE
    /\ again' = FALSE
    /\ UNCHANGED << debug, faults >>

\* A load that leaves the cursor at offset 0 when it returns.
LoadRewinds ==
    /\ alive
    /\ LET r == LoadLoop(log, cursor, index, debug)
       IN  /\ index' = r.index
           /\ alive' = (r.kind = "ok")
           /\ cursor' = IF r.kind = "ok" THEN 0 ELSE cursor
           /\ loaded' = (loaded \/ r.kind = "ok")
           /\ last' = Call("load", << >>, r.kind, << >>, "none")
    /\ written' = EmptyIndex
    /\ pure' = FALSE
    /\ nops' = Count(nops)
    /\ again' = (last.op = "load")
    /\ UNCHANGED << log, debug, faults, prev >>

\* ActionKV::load: the loop starts where the descriptor's cursor is
\* (SeekFrom::Current(0)).
Load ==
    /\ alive
    /\ LET r == LoadLoop(log, cursor, index, debug)
       IN  /\ index' = r.index
           /\ alive' = (r.kind = "ok")
           /\ cursor' = IF r.kind = "ok" THEN Len(log) ELSE cursor
           /\ loaded' = (loaded \/ r.kind = "ok")
           /\ last' = Call("load", << >>, r.kind, << >>, "none")
    /\ written' = EmptyIndex
    /\ pure' = FALSE
    /\ nops' = Count(nops)
    /\ again' = (last.op = "load")
    /\ UNCHANGED << log, debug, faults, prev >>

\* A get_at that reads the record at the start of the file.
GetAtStart(f, pos, dbg) == ProcessRecord(f, 0, dbg)

\* ActionKV::get_at(pos)
GetAt(f, pos, dbg) == ProcessRecord(f, pos, dbg)

\* ActionKV::get(key): "none" is Ok(None), "some" is Ok(Some(val)), "eof" the
\* UnexpectedEof error of process_record handed on by `?`.
Get(key) ==
    /\ alive
    /\ IF key \notin DOMAIN index
       THEN /\ last' = Call("get", key, "none", << >>, "none")
            /\ UNCHANGED << cursor, alive >>
       ELSE LET pos == index[key]
                r   == GetAt(log, pos, debug)
            IN  /\ last' = Call("get", key,
                                IF r.kind = "ok" THEN "some" ELSE r.kind,
                                r.value, "none")
                /\ alive' = ~IsPanic(r.kind)
                /\ cursor' = CursorAfterRead(log, pos, r)
    /\ pure' = FALSE
    /\ nops' = Count(nops)
    /\ again' = (last.op = "get" /\ last.key = key)
    /\ UNCHANGED << log, index, debug, faults, written, prev, loaded >>

\* A descriptor that is not in append mode writes where its cursor is.
WriteAtCursor(f, cur, rec) ==
    SubSeq(f, 1, cur) \o rec \o SubSeq(f, cur + Len(rec) + 1, Len(f))

\* What the file holds once insert_but_ignore_index has written rec: the
\* descriptor is in append mode, so the bytes land at the end of the file
\* wherever the cursor was.
AppendBytes(f, cur, rec) == f \o rec

\* ActionKV::insert(key, value) with insert_but_ignore_index, called as op.
\* fault "seek": seek(SeekFrom::End(0)) fails and `?` returns the error.
\* fault "write": the file takes only the first n bytes of the record; the
\* results of write_u32 and write_all are dropped, and so is the error of
\* the flush when the BufWriter is dropped.
InsertAs(op, key, value, fault, n) ==
    /\ alive
    /\ Len(log) + Len(Encode(key, value)) <= MaxLog
    /\ LET current_pos == Len(log)
           rec == Encode(key, value)
       IN  IF fault = "seek"
           THEN /\ last' = Call(op, key, "ioerr", value, fault)
                /\ UNCHANGED << log, cursor, index, written >>
           ELSE /\ log' = AppendBytes(log, cursor,
                                      IF fault = "write" THEN SubSeq(rec, 1, n) ELSE rec)
                /\ cursor' = Len(log')
                /\ index' = IndexInsert(index, key, current_pos)
                /\ written' = Put(written, key, [off |-> current_pos, val |-> value])
                /\ last' = Call(op, key, "ok", value, fault)
    /\ pure' = (pure /\ fault = "none")
    /\ nops' = Count(nops)
    /\ again' = (last.op = op /\ last.key = key)
    /\ UNCHANGED << alive, debug, prev, loaded >>

Insert(key, value) ==
    /\ InsertAs("insert", key, value, "none", 0)
    /\ UNCHANGED faults

\* An update that writes only for a key the index holds.
UpdateIfPresent(key, value) ==
    IF key \in DOMAIN index
    THEN /\ InsertAs("update", key, value, "none", 0)
         /\ UNCHANGED faults
    ELSE /\ alive
         /\ last' = Call("update", key, "ok", value, "none")
         /\ nops' = Count(nops)
         /\ again' = (last.op = "update" /\ last.key = key)
         /\ UNCHANGED << log, cursor, index, alive, debug, faults, written, pure, prev,
                         loaded >>

\* ActionKV::update(key, value)
Update(key, value) ==
    /\ InsertAs("update", key, value, "none", 0)
    /\ UNCHANGED faults

\* A delete that writes a marker byte as the value.
DeleteWritesMarker(key) ==
    /\ InsertAs("delete", key, << 118 >>, "none", 0)
    /\ UNCHANGED faults

\* ActionKV::delete(key)
Delete(key) ==
    /\ InsertAs("delete", key, << >>, "none", 0)
    /\ UNCHANGED faults

WriteOps == {"insert", "update", "delete"}

\* insert, update or delete during which the seek fails.
SeekFails(op, key, value) ==
    /\ faults < MaxFaults
    /\ op = "delete" => value = << >>
    /\ faults' = faults + 1
    /\ InsertAs(op, key, value, "seek", 0)

\* How much of a record of len bytes a failing write may leave on the file:
\* nothing, part of the header, the header alone, all but the last byte.
Cuts(len) == {0, 5, HeaderLen, len - 1}

\* insert, update or delete during which a write fails after n bytes.
WriteFails(op, key, value, n) ==
    /\ faults < MaxFaults
    /\ op = "delete" => value = << >>
    /\ n < Len(Encode(key, value))
    /\ faults' = faults + 1
    /\ InsertAs(op, key, value, "write", n)

\* The offsets at which the records of file f start, read from offset pos by
\* the lengths in their headers, as long as whole records follow.
RECURSIVE RecordStarts(_, _)
RecordStarts(f, pos) ==
    IF Len(f) - pos < HeaderLen THEN {}
    ELSE LET key_len   == FromLE32(Bytes(f, pos + 4, 4))
             value_len == FromLE32(Bytes(f, pos + 8, 4))
             size      == HeaderLen + Lo(key_len) + Lo(value_len)
         IN  IF ~IsSmall(key_len) \/ ~IsSmall(value_len) \/ pos + size > Len(f)
             THEN {}
             ELSE {pos} \cup RecordStarts(f, pos + size)

\* The size of the record of f that starts at offset pos.
RecordSize(f, pos) ==
    HeaderLen + Lo(FromLE32(Bytes(f, pos + 4, 4))) + Lo(FromLE32(Bytes(f, pos + 8, 4)))

\* Something outside the store flips the lowest bit of a key or value byte:
\* byte i (from 1) of the payload of the record that starts at offset off.
Corrupt(off, i) ==
    /\ faults < MaxFaults
    /\ off \in RecordStarts(log, 0)
    /\ i <= RecordSize(log, off) - HeaderLen
    /\ faults' = faults + 1
    /\ LET at == off + HeaderLen + i
       IN  log' = [log EXCEPT ![at] = IF log[at] % 2 = 0 THEN log[at] + 1 ELSE log[at] - 1]
    /\ pure' = FALSE
    /\ UNCHANGED << cursor, index, alive, debug, last, written, prev, nops, loaded, again >>

\* The calls of the public interface, on a file nothing else touches.
Next ==
    \/ Open
    \/ Load
    \/ \E k \in Keys : Get(k)
    \/ \E k \in Keys, v \in Vals : Insert(k, v)
    \/ \E k \in Keys, v \in Vals : Update(k, v)
    \/ \E k \in Keys : Delete(k)

Spec == Init /\ [][Next]_vars

(***************************************************************************)
(* What the log holds, read from offset 0 without the store.               *)
(***************************************************************************)
\* Key and value of the record of f that starts at offset off.
KeyAt(f, off) ==
    Bytes(f, off + HeaderLen, Lo(FromLE32(Bytes(f, off + 4, 4))))

ValueAt(f, off) ==
    Bytes(f, off + HeaderLen + Lo(FromLE32(Bytes(f, off + 4, 4))),
          Lo(FromLE32(Bytes(f, off + 8, 4))))

\* The offsets of the records of the log.
Records == RecordStarts(log, 0)

\* The log ends where a record ends.
RECURSIVE EndsOnBoundary(_, _)
EndsOnBoundary(f, pos) ==
    IF pos = Len(f) THEN TRUE
    ELSE IF pos \notin RecordStarts(f, pos) THEN FALSE
    ELSE EndsOnBoundary(f, pos + RecordSize(f, pos))

\* What get(key) returns in the current state.
GetNow(key) ==
    IF key \notin DOMAIN index THEN [res |-> "none", val |-> << >>]
    ELSE LET r == GetAt(log, index[key], debug)
         IN  [res |-> IF r.kind = "ok" THEN "some" ELSE r.kind, val |-> r.value]

(***************************************************************************)
(* C1..C5                                                                  *)
(***************************************************************************)
\* C1 (latest-wins): on one handle with no failing I/O, once insert(k, v) has
\* been called, and whatever get calls and inserts, updates and deletes of
\* other keys follow, index[k] is the offset at which that insert started its
\* record and get(k) returns Some(v): the last insert of k wins.
C1_LatestWins ==
    /\ \A k \in DOMAIN written :
          /\ k \in DOMAIN index
          /\ index[k] = written[k].off
          /\ GetNow(k) = [res |-> "some", val |-> written[k].val]
    /\ (last.op = "get" /\ last.key \in DOMAIN written)
          => (last.res = "some" /\ last.val = written[last.key].val)

\* k was inserted twice with different values on a handle that only appended,
\* with a record of another key between the two; get(k) has been called.
C1_Witness ==
    /\ last.op = "get"
    /\ last.key \in DOMAIN written
    /\ \E o1 \in Records, o2 \in Records :
          /\ o1 < o2 /\ o2 < written[last.key].off
          /\ KeyAt(log, o1) = last.key
          /\ ValueAt(log, o1) # written[last.key].val
          /\ KeyAt(log, o2) # last.key
    /\ prev.ok /\ prev.index = EmptyIndex /\ ~loaded

\* C2 (index rebuild after reopen): a handle opened on an empty file makes
\* only insert, update and delete calls and is closed; the path is opened
\* again and load is the first call.  Then load returns Ok, the index equals
\* the one the writing handle held, get(k) returns the value last written for
\* every written key k and None for every other key.
C2_ReopenLoad ==
    (last.op = "load" /\ nops = 1 /\ prev.ok) =>
        /\ last.res = "ok"
        /\ index = prev.index
        /\ \A k \in Keys :
              IF k \in DOMAIN prev.written
              THEN GetNow(k) = [res |-> "some", val |-> prev.written[k].val]
              ELSE GetNow(k).res = "none"

\* The scenario of the spec: three records, two keys, the first key written
\* twice; reopened and loaded.
C2_Witness ==
    /\ last.op = "load" /\ nops = 1 /\ prev.ok
    /\ Cardinality(Records) = 3
    /\ Cardinality(DOMAIN index) = 2
    /\ \E k \in DOMAIN index : index[k] > 0 /\ KeyAt(log, 0) = k /\ ValueAt(log, 0) # ValueAt(log, index[k])

\* C3 (load replays from offset 0): after a load that returned Ok, the index
\* has an entry for every key that has a record in the log.
C3_LoadFromStart ==
    (last.op = "load" /\ last.res = "ok") =>
        \A off \in Records : KeyAt(log, off) \in DOMAIN index

\* C4 (index soundness): every index entry k -> off points at the start of a
\* complete record of the log whose key is k, and no record with key k starts
\* at a later offset.
C4_IndexSound ==
    alive =>
        \A k \in DOMAIN index :
            /\ index[k] \in Records
            /\ KeyAt(log, index[k]) = k
            /\ \A off \in Records : off > index[k] => KeyAt(log, off) # k

\* C5 (append-only log): every call leaves the old log as a prefix of the new
\* one; insert, update and delete add exactly the one encoded record at the
\* old end of the file, wherever the cursor was; open, load and get leave the
\* log as it is.
C5_AppendOnly ==
    [][ IF last'.op \in WriteOps
        THEN log' = log \o Encode(last'.key, last'.val)
        ELSE log' = log ]_vars

\* An insert as the first call on a handle opened on a file that already has
\* records: the cursor was at offset 0, not at the end of the file.
C5_Witness ==
    /\ last.op \in WriteOps
    /\ nops = 1
    /\ Cardinality(Records) = 2

(***************************************************************************)
(* C6..C10                                                                 *)
(***************************************************************************)
\* The record that starts at offset off is complete by the lengths in its
\* header, and its stored checksum is not the CRC-32 of its key and value.
Mismatch(f, off) ==
    /\ off \in RecordStarts(f, off)
    /\ FromLE32(Bytes(f, off, 4)) # Crc32(KeyAt(f, off) \o ValueAt(f, off))

\* C6 (corruption is never served): when the key or value bytes of a stored
\* record no longer match its checksum, a get whose index entry points at the
\* record ends in the "data corruption encountered" panic and returns no
\* value, and a load whose scan meets the record ends in the same panic and
\* binds no key to that record.
C6_CorruptionNotServed ==
    [][ /\ (last'.op = "get" /\ log' = log /\ faults' = faults /\ last'.key \in DOMAIN index
              /\ Mismatch(log, index[last'.key]))
           => (last'.res = "panic_corrupt" /\ ~alive' /\ index' = index)
        /\ (last'.op = "load" /\ log' = log /\ faults' = faults
              /\ \E off \in RecordStarts(log, cursor) : Mismatch(log, off))
           => /\ last'.res = "panic_corrupt"
              /\ ~alive'
              /\ \A k \in DOMAIN index' :
                    Mismatch(log, index'[k]) => (k \in DOMAIN index /\ index[k] = index'[k])
      ]_vars

\* A value byte of the record the index points at was flipped, the key was
\* looked up, and the call ended in the corruption panic.
C6_Witness ==
    /\ faults = 1
    /\ last.op = "get"
    /\ last.res = "panic_corrupt"
    /\ last.key \in DOMAIN index
    /\ Mismatch(log, index[last.key])
    /\ KeyAt(log, index[last.key]) = last.key

\* C7 (truncation is not a clean end of log): a load that reads the log from
\* offset 0 (the first call on a new handle) returns Ok only when the file
\* ends exactly where a record ends.
C7_TruncationReported ==
    (last.op = "load" /\ nops = 1 /\ last.res = "ok") => EndsOnBoundary(log, 0)

\* C8 (I/O failures of insert are propagated): a call during which the seek
\* or a write failed returns an I/O error, and the index binds keys only to
\* offsets at which a complete record was written.
C8_WriteErrorsPropagated ==
    last.fault # "none" =>
        /\ last.res = "ioerr"
        /\ \A k \in DOMAIN index : index[k] \in Records

\* C9 (delete semantics): after delete(k), on a loaded handle or not, with k
\* present before or not, k is in the index and bound to the record just
\* appended, whose value is empty, and get(k) returns Some(empty), not None.
C9_DeleteLeavesEmptyValue ==
    [][ /\ last'.op = "delete" =>
              /\ last'.res = "ok"
              /\ last'.key \in DOMAIN index'
              /\ index'[last'.key] = Len(log)
              /\ Len(log') = Len(log) + HeaderLen + Len(last'.key)
              /\ KeyAt(log', Len(log)) = last'.key
              /\ GetAt(log', index'[last'.key], debug').kind = "ok"
              /\ GetAt(log', index'[last'.key], debug').value = << >>
        /\ (last.op = "delete" /\ last'.op = "get" /\ last'.key = last.key) =>
              (last'.res = "some" /\ last'.val = << >>)
      ]_vars

\* delete(k) on a loaded handle for a key that had a non-empty value, then
\* get(k).
C9_Witness ==
    /\ loaded
    /\ last.op = "get"
    /\ last.res = "some"
    /\ last.val = << >>
    /\ last.key \in DOMAIN written
    /\ written[last.key].off = Len(log) - HeaderLen - Len(last.key)
    /\ \E off \in Records :
          off < index[last.key] /\ KeyAt(log, off) = last.key /\ ValueAt(log, off) # << >>

\* C10 (corruption is an error value): a checksum mismatch met by get or load
\* comes back to the caller as an error; the process is not terminated and
\* the handle goes on serving calls.
C10_CorruptionIsErrorValue ==
    last.op \in {"get", "load"} => (last.res # "panic_corrupt" /\ alive)

(***************************************************************************)
(* C11..C18                                                                *)
(***************************************************************************)
\* C11 (idempotent load): when load is called again on a handle right after
\* a load that returned Ok, with no call and no write to the file between the
\* two, the second load returns Ok and leaves the index with the mapping the
\* first one left.
C11_IdempotentLoad ==
    [][ (last.op = "load" /\ last.res = "ok" /\ last'.op = "load")
            => (last'.res = "ok" /\ index' = index /\ log' = log) ]_vars

\* load, then load again, on a handle opened on a log with records of two
\* keys.
C11_Witness ==
    /\ again
    /\ last.op = "load"
    /\ last.res = "ok"
    /\ nops = 2
    /\ Cardinality(DOMAIN index) = 2
    /\ written = EmptyIndex

\* The byte strings the codec is checked on.
CodecBytes == {0, 107, 255}

LongValue == [i \in 1..LongLen |-> i % 256]

CodecKeys == BoundedSeq(CodecBytes, CodecLen)

CodecVals == BoundedSeq(CodecBytes, CodecLen) \cup {LongValue}

\* What follows the record in the file: nothing, or the bytes of more records.
Tails == { << >>, Zeros }

\* A new store and a key and a value about to be handed to insert.
InitCodec ==
    /\ log = << >>
    /\ cursor = 0
    /\ index = EmptyIndex
    /\ alive = TRUE
    /\ debug \in BOOLEAN
    /\ \E k \in CodecKeys, v \in CodecVals : last = Call("record", k, "ok", v, "none")
    /\ faults = 0
    /\ written = EmptyIndex
    /\ pure = TRUE
    /\ prev = NoPrev
    /\ nops = 0
    /\ loaded = FALSE
    /\ again = FALSE

\* The bytes insert_but_ignore_index writes for the key and the value, with
\* tail behind them.
EncodeRecord(tail) ==
    /\ last.op = "record"
    /\ log' = Encode(last.key, last.val) \o tail
    /\ last' = [last EXCEPT !.op = "encode"]
    /\ UNCHANGED << cursor, index, alive, debug, faults, written, pure, prev, nops,
                    loaded, again >>

\* process_record on a reader over those bytes, positioned at their start;
\* cursor is the position of that reader afterwards.
DecodeRecord ==
    /\ last.op = "encode"
    /\ LET r == ProcessRecord(log, 0, debug)
       IN  /\ last' = Call("process_record", r.key, r.kind, r.value, "none")
           /\ cursor' = r.next
           /\ alive' = ~IsPanic(r.kind)
    /\ UNCHANGED << log, index, debug, faults, written, pure, prev, nops, loaded, again >>

NextCodec ==
    \/ \E tail \in Tails : EncodeRecord(tail)
    \/ DecodeRecord

SpecCodec == InitCodec /\ [][NextCodec]_vars

\* C12 (round trip of the record codec): for every key and value, the empty
\* ones included, process_record decodes the bytes insert writes (checksum,
\* key_len, value_len, key, value) into that key and that value, the checksum
\* comparison passes, and the decoder consumes 12 + |key| + |value| bytes,
\* whatever follows the record.
C12_CodecRoundTrip ==
    [][ (last.op = "encode" /\ last'.op = "process_record")
            => /\ last'.res = "ok"
               /\ last'.key = last.key
               /\ last'.val = last.val
               /\ cursor' = HeaderLen + Len(last.key) + Len(last.val) ]_vars

\* The empty key with the empty value, decoded from a file that goes on
\* behind the record.
C12_Witness ==
    /\ last.op = "process_record"
    /\ last.res = "ok"
    /\ last.key = << >>
    /\ last.val = << >>
    /\ cursor = HeaderLen
    /\ log = Encode(<< >>, << >>) \o Zeros

\* An open without create(true): on a path with no file, OpenOptions::open
\* returns an error and the unwrap panics.
OpenNoCreate ==
    /\ log' = << >>
    /\ cursor' = 0
    /\ index' = EmptyIndex
    /\ alive' = FALSE
    /\ last' = Call("open", << >>, "panic_unwrap", << >>, "none")
    /\ written' = EmptyIndex
    /\ pure' = FALSE
    /\ prev' = NoPrev
    /\ nops' = 0
    /\ loaded' = FALSE
    /\ again' = FALSE
    /\ UNCHANGED << debug, faults >>

\* The handle is dropped and ActionKV::open is called on a path that names
\* no file: create(true) makes the file, empty, and log is from now on the
\* file at this path.
OpenNew ==
    /\ log' = << >>
    /\ cursor' = 0
    /\ index' = EmptyIndex
    /\ alive' = TRUE
    /\ last' = Call("open", << >>, "ok", << >>, "none")
    /\ written' = EmptyIndex
    /\ pure' = TRUE
    /\ prev' = NoPrev
    /\ nops' = 0
    /\ loaded' = FALSE
    /\ again' = FALSE
    /\ UNCHANGED << debug, faults >>

\* ActionKV::open on a path that cannot be opened (permission denied, a
\* directory missing on the way): OpenOptions::open returns Err and the
\* unwrap panics.  No handle is made; the file of the store is as it was.
OpenFails ==
    /\ cursor' = 0
    /\ index' = EmptyIndex
    /\ alive' = FALSE
    /\ last' = Call("open", << >>, "panic_unwrap", << >>, "open")
    /\ written' = EmptyIndex
    /\ pure' = FALSE
    /\ prev' = NoPrev
    /\ nops' = 0
    /\ loaded' = FALSE
    /\ again' = FALSE
    /\ UNCHANGED << log, debug, faults >>

\* The public calls, with opens of new paths and of paths that cannot be
\* opened.
NextPaths ==
    \/ Next
    \/ OpenNew
    \/ OpenFails

SpecPaths == Init /\ [][NextPaths]_vars

\* C13 (open creates, load of the empty file): open on a path with no file
\* returns a handle on an empty file with an empty index; load as the next
\* call returns Ok and the index is still empty.
C13_OpenNewThenLoad ==
    [][ /\ (last'.op = "open" /\ last'.fault = "none" /\ log' = << >>)
               => (last'.res = "ok" /\ alive' /\ index' = EmptyIndex)
        /\ (last.op = "open" /\ last.res = "ok" /\ log = << >> /\ last'.op = "load")
               => (last'.res = "ok" /\ alive' /\ index' = EmptyIndex /\ log' = << >>)
      ]_vars

\* load has returned Ok as the first call on a handle whose open created the
\* file.
C13_Witness ==
    /\ last.op = "load"
    /\ last.res = "ok"
    /\ nops = 1
    /\ log = << >>
    /\ index = EmptyIndex
    /\ prev = NoPrev
    /\ alive

\* C14 (open on an unusable path): the failure comes back to the caller as
\* an I/O error value; the process is not terminated.
C14_OpenErrorIsValue ==
    (last.op = "open" /\ last.fault = "open") => last.res = "ioerr"

\* C15 (update is insert): from every state, update(k, v) returns what
\* insert(k, v) returns from that state and leaves the log, the index and the
\* cursor that insert(k, v) leaves, and the other way round.
C15_UpdateIsInsert ==
    [][ /\ last'.op = "update" =>
              \E k \in {last'.key}, v \in {last'.val}, r \in {last'.res},
                 f \in {log'}, i \in {index'}, c \in {cursor'} :
                    ENABLED (/\ Insert(k, v)
                             /\ last'.res = r /\ log' = f /\ index' = i /\ cursor' = c)
        /\ last'.op = "insert" =>
              \E k \in {last'.key}, v \in {last'.val}, r \in {last'.res},
                 f \in {log'}, i \in {index'}, c \in {cursor'} :
                    ENABLED (/\ Update(k, v)
                             /\ last'.res = r /\ log' = f /\ index' = i /\ cursor' = c)
      ]_vars

\* update(k, v) on a handle whose index held k for an older record with
\* another value, and held another key too.
C15_Witness ==
    /\ last.op = "update"
    /\ last.res = "ok"
    /\ Cardinality(DOMAIN index) = 2
    /\ index[last.key] = Len(log) - Len(Encode(last.key, last.val))
    /\ \E off \in Records :
          /\ off < index[last.key]
          /\ KeyAt(log, off) = last.key
          /\ ValueAt(log, off) # last.val

\* C16 (get is a lookup): get(k) leaves the index and the log as they are;
\* for k not in the index it returns None and the file is not read (the
\* cursor stays); for k in the index it returns the value of the record at
\* index[k]; a get(k) right after a get(k) returns what the first returned.
C16_GetIsLookup ==
    [][ /\ last'.op = "get" =>
              /\ index' = index
              /\ log' = log
              /\ IF last'.key \notin DOMAIN index
                 THEN last'.res = "none" /\ cursor' = cursor
                 ELSE /\ last'.res = "some"
                      /\ last'.val = ValueAt(log, index[last'.key])
        /\ (last.op = "get" /\ last'.op = "get" /\ last'.key = last.key)
              => (last'.res = last.res /\ last'.val = last.val)
      ]_vars

\* get(k) twice in a row, for a key whose record is not the first of the log
\* and has a value that is not empty.
C16_Witness ==
    /\ again
    /\ last.op = "get"
    /\ last.res = "some"
    /\ last.val # << >>
    /\ last.key \in DOMAIN index
    /\ index[last.key] > 0
    /\ last.val = ValueAt(log, index[last.key])

\* C17 (effect of insert): insert(k, v) returns Ok, binds k in the index to
\* the length the file had before the call, makes the file 12 + |k| + |v|
\* bytes longer, and leaves every other index entry as it was, wherever the
\* cursor was before the call.
C17_InsertFrame ==
    [][ last'.op = "insert" =>
            /\ last'.res = "ok"
            /\ DOMAIN index' = DOMAIN index \cup {last'.key}
            /\ index'[last'.key] = Len(log)
            /\ Len(log') = Len(log) + HeaderLen + Len(last'.key) + Len(last'.val)
            /\ \A k \in DOMAIN index : k # last'.key => index'[k] = index[k]
      ]_vars

\* insert(k, v) on a loaded handle whose index held k for an older record
\* and holds another key.
C17_Witness ==
    /\ loaded
    /\ last.op = "insert"
    /\ last.res = "ok"
    /\ Cardinality(DOMAIN index) = 2
    /\ index[last.key] = Len(log) - HeaderLen - Len(last.key) - Len(last.val)
    /\ \E off \in Records : off < index[last.key] /\ KeyAt(log, off) = last.key
    /\ \A k \in DOMAIN index : k # last.key => index[k] \in Records

\* A find that goes on to the next record when the value is not the target.
RECURSIVE FindLoopScans(_, _, _, _)
FindLoopScans(f, pos, target, dbg) ==
    LET r == ProcessRecord(f, pos, dbg)
    IN  IF r.kind = "ok" /\ r.value # target
        THEN FindLoopScans(f, r.next, target, dbg)
        ELSE [res |-> IF r.kind = "ok" THEN "some"
                      ELSE IF r.kind = "eof" THEN "none" ELSE r.kind,
              key |-> r.key,
              cursor |-> CursorAfterRead(f, pos, r)]

\* The loop of find on a reader at offset pos: process_record once; Ok with
\* the target as value returns the pair ("some"); Ok with another value
\* breaks out of the loop, and UnexpectedEof returns, with Ok(None) ("none");
\* a panic ends the process.  cursor is where the descriptor is afterwards.
FindLoop(f, pos, target, dbg) ==
    LET r == ProcessRecord(f, pos, dbg)
    IN  [res |-> IF r.kind = "ok" THEN (IF r.value = target THEN "some" ELSE "none")
                 ELSE IF r.kind = "eof" THEN "none" ELSE r.kind,
         key |-> IF r.kind = "ok" /\ r.value = target THEN r.key ELSE << >>,
         cursor |-> CursorAfterRead(f, pos, r)]

\* ActionKV::find(target), the private method, called from inside the
\* module: the reader starts where the descriptor's cursor is
\* (SeekFrom::Current(0)).  last.key is the key of the pair returned,
\* last.val the target.
Find(target) ==
    /\ alive
    /\ LET r == FindLoop(log, cursor, target, debug)
       IN  /\ last' = Call("find", r.key, r.res, target, "none")
           /\ alive' = ~IsPanic(r.res)
           /\ cursor' = r.cursor
    /\ pure' = FALSE
    /\ nops' = Count(nops)
    /\ again' = (last.op = "find" /\ last.val = target)
    /\ UNCHANGED << log, index, debug, faults, written, prev, loaded >>

\* The public calls and find.
NextFind ==
    \/ Next
    \/ \E target \in Vals : Find(target)

SpecFind == Init /\ [][NextFind]_vars

\* A complete record with a matching checksum starts at offset off of f.
RecordAt(f, off) == off \in RecordStarts(f, off) /\ ~Mismatch(f, off)

\* C18 (find looks at one record): find(target) decodes the one record at
\* the cursor.  It returns that record exactly when the record's value is
\* the target; it returns None when the value is another one and when the
\* cursor is at the end of the log, whatever records follow; it changes
\* neither the index nor the log.
C18_FindAtCursor ==
    [][ last'.op = "find" =>
            /\ index' = index
            /\ log' = log
            /\ (last'.res = "some")
                  <=> (RecordAt(log, cursor) /\ ValueAt(log, cursor) = last'.val)
            /\ last'.res = "some" => last'.key = KeyAt(log, cursor)
            /\ (RecordAt(log, cursor) /\ ValueAt(log, cursor) # last'.val)
                  => last'.res = "none"
            /\ cursor = Len(log) => last'.res = "none"
      ]_vars

\* find(target) as the first call on a new handle, so with the cursor at
\* offset 0: the first record has another value, a later record has the
\* target as value, and find returned None.
C18_Witness ==
    /\ last.op = "find"
    /\ nops = 1
    /\ last.res = "none"
    /\ 0 \in Records
    /\ ValueAt(log, 0) # last.val
    /\ \E off \in Records : off > 0 /\ ValueAt(log, off) = last.val

\* The same calls with seeks and writes that can fail.
NextFaulty ==
    \/ Next
    \/ \E op \in WriteOps, k \in Keys, v \in Vals : SeekFails(op, k, v)
    \/ \E op \in WriteOps, k \in Keys, v \in Vals :
          \E n \in Cuts(Len(Encode(k, v))) : WriteFails(op, k, v, n)

SpecFaulty == Init /\ [][NextFaulty]_vars

\* The same calls on a file whose records can be modified from outside.
NextCorrupt ==
    \/ Next
    \/ \E off \in RecordStarts(log, 0) :
          \E i \in 1..(RecordSize(log, off) - HeaderLen) : Corrupt(off, i)

SpecCorrupt == Init /\ [][NextCorrupt]_vars
====
